---- MODULE Spec2Model ----
(***************************************************************************)
(* Model of the access dialog portal backend (src/src/access.rs).          *)
(*                                                                         *)
(* The D-Bus method Access::access_dialog builds an AccessDialogArgs value *)
(* holding the sender half of a fresh capacity-1 reply channel, pushes it  *)
(* into the subscription channel and waits on the receiver half.  The      *)
(* application loop hands the event to update_args, which stores it in     *)
(* portal.access_args (the slot), and hands the dialog's messages          *)
(* (Msg::Allow, Msg::Cancel, Msg::Choice) to update_msg.  Every reply is   *)
(* sent by a task given to tokio::spawn, so it is in flight between the    *)
(* handler that spawned it and the channel.                                *)
(*                                                                         *)
(* Rust values are modelled as follows.  Option<T>: <<>> is None and <<x>> *)
(* is Some(x).  Vec<T>: a sequence (Rust index i is TLA+ index i + 1).     *)
(* Tuples: tuples.  HashMap<String,String>: a function on its key set.     *)
(* A panic (Option::unwrap on None) unwinds the application loop and ends  *)
(* the process: panicked becomes TRUE and no further step is taken.        *)
(* The application loop may also end while the D-Bus service goes on       *)
(* (closed): its handlers run no more, the senders it held are dropped,    *)
(* and the calls and the spawned tasks go on.                              *)
(***************************************************************************)
EXTENDS Integers, Sequences, FiniteSets, TLC

\* Number of access_dialog calls made by clients.
MaxReq == 2
\* Largest (0-based) index carried by a Msg::Choice message.
MaxIdx == 1

Handles == 1 .. MaxReq

None == << >>
Some(x) == << x >>
IsSome(o) == o # << >>
Unwrap(o) == o[1]

(***************************************************************************)
(* options.choices: Option<Vec<(id, label, Vec<(id, label)>, initial)>>    *)
(***************************************************************************)
FmtGroup == << "fmt", "Format", << <<"a", "A">>, <<"b", "B">> >>, "a" >>
EncGroup == << "enc", "Encoding", << <<"u", "U">>, <<"l", "L">> >>, "" >>
DupGroup == << "fmt", "Format again", << <<"c", "C">> >>, "c" >>
OddGroup == << "odd", "No options", << >>, "z" >>
BlankGroup == << "fmt", "Format", << >>, "" >>

\* The values of options.choices a client passes in this model.
ChoiceInputs ==
    { None,
      Some(<< FmtGroup >>),
      Some(<< FmtGroup, DupGroup >>),
      Some(<< EncGroup, OddGroup >>),
      Some(<< BlankGroup, DupGroup >>) }

\* Option<Vec<T>>::iter().flatten(): the elements of the vector, none for None.
Flatten(choices) == IF IsSome(choices) THEN Unwrap(choices) ELSE << >>

\* HashMap::insert
Insert(m, k, v) == [x \in (DOMAIN m) \cup {k} |-> IF x = k THEN v ELSE m[x]]

\* Iterator::collect into a HashMap: the pairs are inserted in order, so a
\* later pair replaces an earlier one with the same key.
RECURSIVE CollectMap(_)
CollectMap(pairs) ==
    IF pairs = << >> THEN << >>
    ELSE LET n == Len(pairs)
         IN  Insert(CollectMap(SubSeq(pairs, 1, n - 1)), pairs[n][1], pairs[n][2])

\* Mutant of the seeding: the filter is left out, a group with an empty
\* initial is seeded with "".
RECURSIVE InitialPairsUnfiltered(_)
InitialPairsUnfiltered(groups) ==
    IF groups = << >> THEN << >>
    ELSE LET g == Head(groups)
         IN  << << g[1], g[4] >> >> \o InitialPairsUnfiltered(Tail(groups))

\* The (id, initial) pairs of the groups, those with an empty initial dropped.
RECURSIVE InitialPairs(_)
InitialPairs(groups) ==
    IF groups = << >> THEN << >>
    ELSE LET g == Head(groups)
             rest == InitialPairs(Tail(groups))
         IN  IF g[4] # "" THEN << << g[1], g[4] >> >> \o rest ELSE rest

ActiveChoices(choices) == CollectMap(InitialPairs(Flatten(choices)))

ChoiceLabels(choices) ==
    LET groups == Flatten(choices)
    IN  [g \in 1 .. Len(groups) |->
            [o \in 1 .. Len(groups[g][3]) |-> groups[g][3][o][2]]]

\* PortalResponse<AccessDialogResult>.  The Vec<(String, String)> of a result
\* is collected from the map in no particular order: the set of its pairs.
Cancelled == [kind |-> "Cancelled"]
Success(active) ==
    [kind |-> "Success", choices |-> {<< k, active[k] >> : k \in DOMAIN active}]

AccessDialogArgs(h, choices) ==
    [handle |-> h,
     options |-> choices,
     active_choices |-> ActiveChoices(choices),
     choice_labels |-> ChoiceLabels(choices),
     tx |-> h]

VARIABLES
    calls,        \* number of access_dialog calls made so far
    pc,           \* per call: "idle", "recv" (awaiting rx.recv), "returned", "dropped"
    ret,          \* per call: Some(value returned to the D-Bus caller), or None
    events,       \* subscription channel: AccessDialogArgs sent, not yet handled
    access_args,  \* portal.access_args: Option<AccessDialogArgs>
    tasks,        \* per call: the values of the sends spawned on its tx, not yet run
    rx,           \* per call: buffer of the reply channel (capacity 1)
    sent,         \* per call: the sends completed on its tx: [msg, ok]
    surfaces,     \* the surface commands returned so far: [get, destroy]
    cmds,         \* the Command batch returned by the handler run in the last
                  \* step (empty when it returned none, or no handler ran)
    closed,       \* the application loop has ended: the subscription receiver
                  \* and the slot are dropped, with the senders they hold
    unsent,       \* the calls whose event the subscription channel refused
    panicked,     \* an unwrap on None has unwound the application loop
    lastChoice,   \* history, per group of the request installed last: the option
                  \* (1-based) of its last in-range Msg::Choice, 0 when it had none
    leftBy,       \* history, per call: the handler that took it out of the slot
    handled       \* history: what the application loop handled in the last step
                  \* ("none" when the step was not one of the application loop)

vars == << calls, pc, ret, events, access_args, tasks, rx, sent, surfaces,
           cmds, closed, unsent, panicked, lastChoice, leftBy, handled >>

ChannelCapacity == 1

Init ==
    /\ calls = 0
    /\ pc = [h \in Handles |-> "idle"]
    /\ ret = [h \in Handles |-> None]
    /\ events = << >>
    /\ access_args = None
    /\ tasks = [h \in Handles |-> << >>]
    /\ rx = [h \in Handles |-> << >>]
    /\ sent = [h \in Handles |-> << >>]
    /\ surfaces = [get |-> 0, destroy |-> 0]
    /\ cmds = << >>
    /\ closed = FALSE
    /\ unsent = {}
    /\ panicked = FALSE
    /\ lastChoice = << >>
    /\ leftBy = [h \in Handles |-> "none"]
    /\ handled = "none"

\* tokio::spawn(async move { tx.send(msg).await })
Spawn(ts, tx, msg) == [ts EXCEPT ![tx] = Append(@, msg)]

\* The handler returns Command::batch(batch), each command being
\* destroy_surface(..) or get_surface(..); Command::none() is the empty batch.
Issue(batch) ==
    /\ cmds' = batch
    /\ surfaces' =
          [get |-> surfaces.get
                     + Cardinality({k \in 1 .. Len(batch) : batch[k] = "get_surface"}),
           destroy |-> surfaces.destroy
                     + Cardinality({k \in 1 .. Len(batch) : batch[k] = "destroy_surface"})]

(***************************************************************************)
(* Access::access_dialog up to its rx.recv().await: the reply channel is   *)
(* created, active_choices and choice_labels are computed, and the event   *)
(* is sent to the subscription.  When the subscription receiver is gone    *)
(* the send returns Err: the error is logged and the event, with the tx in *)
(* it, is dropped.  Either way the call goes on to rx.recv().await.        *)
(***************************************************************************)
AccessDialog(choices) ==
    /\ ~panicked
    /\ calls < MaxReq
    /\ LET h == calls + 1
       IN  /\ calls' = h
           /\ IF closed
              THEN /\ unsent' = unsent \cup {h}
                   /\ UNCHANGED events
              ELSE /\ events' = Append(events, AccessDialogArgs(h, choices))
                   /\ UNCHANGED unsent
           /\ pc' = [pc EXCEPT ![h] = "recv"]
    /\ handled' = "none"
    /\ cmds' = << >>
    /\ UNCHANGED << ret, access_args, tasks, rx, sent, surfaces, closed, panicked,
                    lastChoice, leftBy >>

\* Mutant of update_args: the new request overwrites the slot, the old one is
\* neither taken nor answered.
UpdateArgsOverwrites ==
    /\ ~panicked
    /\ ~closed
    /\ UNCHANGED << closed, unsent >>
    /\ events # << >>
    /\ LET msg == Head(events)
       IN  /\ access_args' = Some(msg)
           /\ lastChoice' = [g \in 1 .. Len(Flatten(msg.options)) |-> 0]
           /\ events' = Tail(events)
    /\ Issue(<< "get_surface" >>)
    /\ handled' = "update_args"
    /\ UNCHANGED << calls, pc, ret, tasks, rx, sent, panicked, leftBy >>

\* Mutant of update_args: the superseded request is answered with the
\* selections it had, as if it had been approved.
UpdateArgsApprovesOld ==
    /\ ~panicked
    /\ ~closed
    /\ UNCHANGED << closed, unsent >>
    /\ events # << >>
    /\ LET msg == Head(events)
       IN  /\ IF IsSome(access_args)
              THEN LET args == Unwrap(access_args)
                   IN  /\ tasks' = Spawn(tasks, args.tx, Success(args.active_choices))
                       /\ leftBy' = [leftBy EXCEPT ![args.handle] = "update_args"]
                       /\ Issue(<< "destroy_surface", "get_surface" >>)
              ELSE /\ Issue(<< "get_surface" >>)
                   /\ UNCHANGED << tasks, leftBy >>
           /\ access_args' = Some(msg)
           /\ lastChoice' = [g \in 1 .. Len(Flatten(msg.options)) |-> 0]
           /\ events' = Tail(events)
    /\ handled' = "update_args"
    /\ UNCHANGED << calls, pc, ret, rx, sent, panicked >>

\* Mutant of update_args: the superseded request's surface is not destroyed.
UpdateArgsKeepsSurface ==
    /\ ~panicked
    /\ ~closed
    /\ UNCHANGED << closed, unsent >>
    /\ events # << >>
    /\ LET msg == Head(events)
       IN  /\ IF IsSome(access_args)
              THEN LET args == Unwrap(access_args)
                   IN  /\ tasks' = Spawn(tasks, args.tx, Cancelled)
                       /\ leftBy' = [leftBy EXCEPT ![args.handle] = "update_args"]
              ELSE UNCHANGED << tasks, leftBy >>
           /\ Issue(<< "get_surface" >>)
           /\ access_args' = Some(msg)
           /\ lastChoice' = [g \in 1 .. Len(Flatten(msg.options)) |-> 0]
           /\ events' = Tail(events)
    /\ handled' = "update_args"
    /\ UNCHANGED << calls, pc, ret, rx, sent, panicked >>

(***************************************************************************)
(* update_args: the application loop takes the next event.                 *)
(***************************************************************************)
UpdateArgs ==
    /\ ~panicked
    /\ ~closed
    /\ UNCHANGED << closed, unsent >>
    /\ events # << >>
    /\ LET msg == Head(events)
       IN  /\ IF IsSome(access_args)
              THEN LET args == Unwrap(access_args)
                   IN  /\ tasks' = Spawn(tasks, args.tx, Cancelled)
                       /\ leftBy' = [leftBy EXCEPT ![args.handle] = "update_args"]
                       /\ Issue(<< "destroy_surface", "get_surface" >>)
              ELSE /\ Issue(<< "get_surface" >>)
                   /\ UNCHANGED << tasks, leftBy >>
           /\ access_args' = Some(msg)
           /\ lastChoice' = [g \in 1 .. Len(Flatten(msg.options)) |-> 0]
           /\ events' = Tail(events)
    /\ handled' = "update_args"
    /\ UNCHANGED << calls, pc, ret, rx, sent, panicked >>

\* Option::unwrap on None, in the application loop: the handler returns no
\* Command.
Panic(name) ==
    /\ panicked' = TRUE
    /\ handled' = name
    /\ cmds' = << >>
    /\ UNCHANGED << calls, pc, ret, events, access_args, tasks, rx, sent,
                    surfaces, closed, unsent, lastChoice, leftBy >>

\* Mutant of Msg::Allow: the slot is read (as_ref) instead of taken.
AllowKeepsRequest ==
    /\ ~panicked
    /\ ~closed
    /\ UNCHANGED << closed, unsent >>
    /\ IF IsSome(access_args)
       THEN LET args == Unwrap(access_args)
            IN  /\ tasks' = Spawn(tasks, args.tx, Success(args.active_choices))
                /\ Issue(<< "destroy_surface" >>)
                /\ handled' = "Allow"
                /\ UNCHANGED << calls, pc, ret, events, access_args, rx, sent,
                                panicked, lastChoice, leftBy >>
       ELSE Panic("Allow")

\* Mutant of Msg::Allow: the result is built from the initial selections.
AllowSendsInitial ==
    /\ ~panicked
    /\ ~closed
    /\ UNCHANGED << closed, unsent >>
    /\ IF IsSome(access_args)
       THEN LET args == Unwrap(access_args)
            IN  /\ access_args' = None
                /\ tasks' = Spawn(tasks, args.tx, Success(ActiveChoices(args.options)))
                /\ Issue(<< "destroy_surface" >>)
                /\ leftBy' = [leftBy EXCEPT ![args.handle] = "Allow"]
                /\ handled' = "Allow"
                /\ UNCHANGED << calls, pc, ret, events, rx, sent, panicked,
                                lastChoice >>
       ELSE Panic("Allow")

\* Mutant of Msg::Allow: the slot is cleared and no reply is sent.
AllowForgetsReply ==
    /\ ~panicked
    /\ ~closed
    /\ UNCHANGED << closed, unsent >>
    /\ IF IsSome(access_args)
       THEN LET args == Unwrap(access_args)
            IN  /\ access_args' = None
                /\ Issue(<< "destroy_surface" >>)
                /\ leftBy' = [leftBy EXCEPT ![args.handle] = "Allow"]
                /\ handled' = "Allow"
                /\ UNCHANGED << calls, pc, ret, events, tasks, rx, sent, panicked,
                                lastChoice >>
       ELSE Panic("Allow")

(***************************************************************************)
(* update_msg, Msg::Allow                                                  *)
(***************************************************************************)
Allow ==
    /\ ~panicked
    /\ ~closed
    /\ UNCHANGED << closed, unsent >>
    /\ IF IsSome(access_args)
       THEN LET args == Unwrap(access_args)
            IN  /\ access_args' = None
                /\ tasks' = Spawn(tasks, args.tx, Success(args.active_choices))
                /\ Issue(<< "destroy_surface" >>)
                /\ leftBy' = [leftBy EXCEPT ![args.handle] = "Allow"]
                /\ handled' = "Allow"
                /\ UNCHANGED << calls, pc, ret, events, rx, sent, panicked,
                                lastChoice >>
       ELSE Panic("Allow")

\* Mutant of Msg::Cancel: an empty slot is skipped (if let Some) instead of
\* unwrapped.
CancelIgnoresIdle ==
    /\ ~panicked
    /\ ~closed
    /\ UNCHANGED << closed, unsent >>
    /\ IF IsSome(access_args)
       THEN LET args == Unwrap(access_args)
            IN  /\ access_args' = None
                /\ tasks' = Spawn(tasks, args.tx, Cancelled)
                /\ Issue(<< "destroy_surface" >>)
                /\ leftBy' = [leftBy EXCEPT ![args.handle] = "Cancel"]
                /\ handled' = "Cancel"
                /\ UNCHANGED << calls, pc, ret, events, rx, sent, panicked,
                                lastChoice >>
       ELSE /\ handled' = "Cancel"
            /\ Issue(<< >>)
            /\ UNCHANGED << calls, pc, ret, events, access_args, tasks, rx, sent,
                            panicked, lastChoice, leftBy >>

\* Mutant of Msg::Cancel: the reply carries the selections, as Msg::Allow's does.
CancelSendsSelections ==
    /\ ~panicked
    /\ ~closed
    /\ UNCHANGED << closed, unsent >>
    /\ IF IsSome(access_args)
       THEN LET args == Unwrap(access_args)
            IN  /\ access_args' = None
                /\ tasks' = Spawn(tasks, args.tx, Success(args.active_choices))
                /\ Issue(<< "destroy_surface" >>)
                /\ leftBy' = [leftBy EXCEPT ![args.handle] = "Cancel"]
                /\ handled' = "Cancel"
                /\ UNCHANGED << calls, pc, ret, events, rx, sent, panicked,
                                lastChoice >>
       ELSE Panic("Cancel")

\* Mutant of Msg::Cancel: the slot is read (as_ref) instead of taken.
CancelKeepsRequest ==
    /\ ~panicked
    /\ ~closed
    /\ UNCHANGED << closed, unsent >>
    /\ IF IsSome(access_args)
       THEN LET args == Unwrap(access_args)
            IN  /\ tasks' = Spawn(tasks, args.tx, Cancelled)
                /\ Issue(<< "destroy_surface" >>)
                /\ handled' = "Cancel"
                /\ UNCHANGED << calls, pc, ret, events, access_args, rx, sent,
                                panicked, lastChoice, leftBy >>
       ELSE Panic("Cancel")

(***************************************************************************)
(* update_msg, Msg::Cancel                                                 *)
(***************************************************************************)
Cancel ==
    /\ ~panicked
    /\ ~closed
    /\ UNCHANGED << closed, unsent >>
    /\ IF IsSome(access_args)
       THEN LET args == Unwrap(access_args)
            IN  /\ access_args' = None
                /\ tasks' = Spawn(tasks, args.tx, Cancelled)
                /\ Issue(<< "destroy_surface" >>)
                /\ leftBy' = [leftBy EXCEPT ![args.handle] = "Cancel"]
                /\ handled' = "Cancel"
                /\ UNCHANGED << calls, pc, ret, events, rx, sent, panicked,
                                lastChoice >>
       ELSE Panic("Cancel")

\* args.options.choices.as_ref().and_then(|x| x.get(i)), then choice.2.get(j)
InRange(choices, i, j) ==
    /\ IsSome(choices)
    /\ i < Len(Unwrap(choices))
    /\ j < Len(Unwrap(choices)[i + 1][3])

\* Mutant of Msg::Choice: the vectors are indexed (x[i], choice.2[j]) instead
\* of read with get, so an index out of range panics.
ChoiceIndexPanics(i, j) ==
    /\ ~panicked
    /\ ~closed
    /\ UNCHANGED << closed, unsent >>
    /\ IF IsSome(access_args) /\ InRange(Unwrap(access_args).options, i, j)
       THEN LET args == Unwrap(access_args)
                choice == Unwrap(args.options)[i + 1]
                option_id == choice[3][j + 1][1]
            IN  /\ access_args' = Some([args EXCEPT !.active_choices =
                           Insert(args.active_choices, choice[1], option_id)])
                /\ lastChoice' = [lastChoice EXCEPT ![i + 1] = j + 1]
                /\ handled' = "Choice"
                /\ Issue(<< >>)
                /\ UNCHANGED << calls, pc, ret, events, tasks, rx, sent,
                                panicked, leftBy >>
       ELSE Panic("Choice")

\* Mutant of Msg::Choice: an index out of range dismisses the dialog, as
\* Msg::Cancel does.
ChoiceDismisses(i, j) ==
    /\ ~panicked
    /\ ~closed
    /\ UNCHANGED << closed, unsent >>
    /\ IF IsSome(access_args)
       THEN LET args == Unwrap(access_args)
            IN  IF InRange(args.options, i, j)
                THEN LET choice == Unwrap(args.options)[i + 1]
                         option_id == choice[3][j + 1][1]
                     IN  /\ access_args' = Some([args EXCEPT !.active_choices =
                                    Insert(args.active_choices, choice[1], option_id)])
                         /\ lastChoice' = [lastChoice EXCEPT ![i + 1] = j + 1]
                         /\ handled' = "Choice"
                         /\ Issue(<< >>)
                         /\ UNCHANGED << calls, pc, ret, events, tasks, rx, sent,
                                         panicked, leftBy >>
                ELSE /\ access_args' = None
                     /\ tasks' = Spawn(tasks, args.tx, Cancelled)
                     /\ Issue(<< "destroy_surface" >>)
                     /\ leftBy' = [leftBy EXCEPT ![args.handle] = "Cancel"]
                     /\ handled' = "Choice"
                     /\ UNCHANGED << calls, pc, ret, events, rx, sent, panicked,
                                     lastChoice >>
       ELSE Panic("Choice")

\* Mutant of Msg::Choice: the option's label is stored instead of its id.
ChoiceStoresLabel(i, j) ==
    /\ ~panicked
    /\ ~closed
    /\ UNCHANGED << closed, unsent >>
    /\ IF IsSome(access_args)
       THEN LET args == Unwrap(access_args)
            IN  /\ IF InRange(args.options, i, j)
                   THEN LET choice == Unwrap(args.options)[i + 1]
                            option_label == choice[3][j + 1][2]
                        IN  /\ access_args' = Some([args EXCEPT !.active_choices =
                                       Insert(args.active_choices, choice[1], option_label)])
                            /\ lastChoice' = [lastChoice EXCEPT ![i + 1] = j + 1]
                   ELSE UNCHANGED << access_args, lastChoice >>
                /\ handled' = "Choice"
                /\ Issue(<< >>)
                /\ UNCHANGED << calls, pc, ret, events, tasks, rx, sent,
                                panicked, leftBy >>
       ELSE Panic("Choice")

\* Mutant of Msg::Choice: the map is replaced by the one new entry.
ChoiceResetsOthers(i, j) ==
    /\ ~panicked
    /\ ~closed
    /\ UNCHANGED << closed, unsent >>
    /\ IF IsSome(access_args)
       THEN LET args == Unwrap(access_args)
            IN  /\ IF InRange(args.options, i, j)
                   THEN LET choice == Unwrap(args.options)[i + 1]
                            option_id == choice[3][j + 1][1]
                        IN  /\ access_args' = Some([args EXCEPT !.active_choices =
                                       Insert(<< >>, choice[1], option_id)])
                            /\ lastChoice' = [lastChoice EXCEPT ![i + 1] = j + 1]
                   ELSE UNCHANGED << access_args, lastChoice >>
                /\ handled' = "Choice"
                /\ Issue(<< >>)
                /\ UNCHANGED << calls, pc, ret, events, tasks, rx, sent,
                                panicked, leftBy >>
       ELSE Panic("Choice")

\* Mutant of Msg::Choice: the entry is keyed by the group's label (choice.1)
\* instead of its id (choice.0).
ChoiceKeyedByLabel(i, j) ==
    /\ ~panicked
    /\ ~closed
    /\ UNCHANGED << closed, unsent >>
    /\ IF IsSome(access_args)
       THEN LET args == Unwrap(access_args)
            IN  /\ IF InRange(args.options, i, j)
                   THEN LET choice == Unwrap(args.options)[i + 1]
                            option_id == choice[3][j + 1][1]
                        IN  /\ access_args' = Some([args EXCEPT !.active_choices =
                                       Insert(args.active_choices, choice[2], option_id)])
                            /\ lastChoice' = [lastChoice EXCEPT ![i + 1] = j + 1]
                   ELSE UNCHANGED << access_args, lastChoice >>
                /\ handled' = "Choice"
                /\ Issue(<< >>)
                /\ UNCHANGED << calls, pc, ret, events, tasks, rx, sent,
                                panicked, leftBy >>
       ELSE Panic("Choice")

(***************************************************************************)
(* update_msg, Msg::Choice(i, j)                                           *)
(***************************************************************************)
Choice(i, j) ==
    /\ ~panicked
    /\ ~closed
    /\ UNCHANGED << closed, unsent >>
    /\ IF IsSome(access_args)
       THEN LET args == Unwrap(access_args)
            IN  /\ IF InRange(args.options, i, j)
                   THEN LET choice == Unwrap(args.options)[i + 1]
                            option_id == choice[3][j + 1][1]
                        IN  /\ access_args' = Some([args EXCEPT !.active_choices =
                                       Insert(args.active_choices, choice[1], option_id)])
                            /\ lastChoice' = [lastChoice EXCEPT ![i + 1] = j + 1]
                   ELSE UNCHANGED << access_args, lastChoice >>
                /\ handled' = "Choice"
                /\ Issue(<< >>)
                /\ UNCHANGED << calls, pc, ret, events, tasks, rx, sent,
                                panicked, leftBy >>
       ELSE Panic("Choice")

\* The receiver half lives in the access_dialog future, up to its return.
ReceiverOpen(h) == pc[h] = "recv"

\* A sender of h's reply channel is alive: the tx is in a queued event or in
\* the slot of a running application loop, or a spawned task holds its clone.
SenderAlive(h) ==
    \/ /\ ~closed
       /\ \/ \E k \in 1 .. Len(events) : events[k].tx = h
          \/ IsSome(access_args) /\ Unwrap(access_args).tx = h
    \/ tasks[h] # << >>

\* Mutant of the spawned send: one reply channel is shared by all calls, so
\* the value goes to whichever call waits first.
RunSendSharedChannel(h) ==
    /\ ~panicked
    /\ cmds' = << >>
    /\ UNCHANGED << closed, unsent >>
    /\ tasks[h] # << >>
    /\ LET msg == Head(tasks[h])
           waiting == {n \in Handles : ReceiverOpen(n)}
       IN  IF waiting # {}
           THEN LET n == CHOOSE x \in waiting : \A y \in waiting : x <= y
                IN  /\ Len(rx[n]) < ChannelCapacity
                    /\ rx' = [rx EXCEPT ![n] = Append(@, msg)]
                    /\ sent' = [sent EXCEPT ![h] = Append(@, [msg |-> msg, ok |-> TRUE])]
           ELSE /\ sent' = [sent EXCEPT ![h] = Append(@, [msg |-> msg, ok |-> FALSE])]
                /\ UNCHANGED rx
    /\ tasks' = [tasks EXCEPT ![h] = Tail(@)]
    /\ handled' = "none"
    /\ UNCHANGED << calls, pc, ret, events, access_args, surfaces, panicked,
                    lastChoice, leftBy >>

\* Mutant of the spawned send: its result is unwrapped, so a send to a
\* receiver that is gone brings the process down.
RunSendUnwraps(h) ==
    /\ ~panicked
    /\ cmds' = << >>
    /\ UNCHANGED << closed, unsent >>
    /\ tasks[h] # << >>
    /\ LET msg == Head(tasks[h])
       IN  IF ReceiverOpen(h)
           THEN /\ Len(rx[h]) < ChannelCapacity
                /\ rx' = [rx EXCEPT ![h] = Append(@, msg)]
                /\ sent' = [sent EXCEPT ![h] = Append(@, [msg |-> msg, ok |-> TRUE])]
                /\ UNCHANGED panicked
           ELSE /\ sent' = [sent EXCEPT ![h] = Append(@, [msg |-> msg, ok |-> FALSE])]
                /\ panicked' = TRUE
                /\ UNCHANGED rx
    /\ tasks' = [tasks EXCEPT ![h] = Tail(@)]
    /\ handled' = "none"
    /\ UNCHANGED << calls, pc, ret, events, access_args, surfaces,
                    lastChoice, leftBy >>

(***************************************************************************)
(* A spawned task runs: tx.send(msg).await on the capacity-1 channel.  The *)
(* send fails when the receiver is gone and waits while the buffer is full.*)
(***************************************************************************)
RunSend(h) ==
    /\ ~panicked
    /\ cmds' = << >>
    /\ UNCHANGED << closed, unsent >>
    /\ tasks[h] # << >>
    /\ LET msg == Head(tasks[h])
       IN  IF ReceiverOpen(h)
           THEN /\ Len(rx[h]) < ChannelCapacity
                /\ rx' = [rx EXCEPT ![h] = Append(@, msg)]
                /\ sent' = [sent EXCEPT ![h] = Append(@, [msg |-> msg, ok |-> TRUE])]
           ELSE /\ sent' = [sent EXCEPT ![h] = Append(@, [msg |-> msg, ok |-> FALSE])]
                /\ UNCHANGED rx
    /\ tasks' = [tasks EXCEPT ![h] = Tail(@)]
    /\ handled' = "none"
    /\ UNCHANGED << calls, pc, ret, events, access_args, surfaces, panicked,
                    lastChoice, leftBy >>

(***************************************************************************)
(* access_dialog, rx.recv().await yields Some(res): res is returned.       *)
(***************************************************************************)
Recv(h) ==
    /\ ~panicked
    /\ cmds' = << >>
    /\ UNCHANGED << closed, unsent >>
    /\ pc[h] = "recv"
    /\ rx[h] # << >>
    /\ ret' = [ret EXCEPT ![h] = Some(Head(rx[h]))]
    /\ rx' = [rx EXCEPT ![h] = Tail(@)]
    /\ pc' = [pc EXCEPT ![h] = "returned"]
    /\ handled' = "none"
    /\ UNCHANGED << calls, events, access_args, tasks, sent, surfaces, panicked,
                    lastChoice, leftBy >>

(***************************************************************************)
(* The access_dialog future is dropped at its rx.recv().await (the client  *)
(* went away): the receiver half of the reply channel is dropped with it.  *)
(***************************************************************************)
CallerGone(h) ==
    /\ ~panicked
    /\ cmds' = << >>
    /\ UNCHANGED << closed, unsent >>
    /\ pc[h] = "recv"
    /\ pc' = [pc EXCEPT ![h] = "dropped"]
    /\ rx' = [rx EXCEPT ![h] = << >>]
    /\ handled' = "none"
    /\ UNCHANGED << calls, ret, events, access_args, tasks, sent, surfaces,
                    panicked, lastChoice, leftBy >>

\* Mutant of the rx.recv() = None branch: try_recv() in place of
\* recv().await, so an empty channel ends the call whoever may still answer.
RecvNoneTryRecv(h) ==
    /\ ~panicked
    /\ pc[h] = "recv"
    /\ rx[h] = << >>
    /\ ret' = [ret EXCEPT ![h] = Some(Cancelled)]
    /\ pc' = [pc EXCEPT ![h] = "returned"]
    /\ handled' = "none"
    /\ cmds' = << >>
    /\ UNCHANGED << calls, events, access_args, tasks, rx, sent, surfaces, closed,
                    unsent, panicked, lastChoice, leftBy >>

\* Mutant of the rx.recv() = None branch: an empty Success is returned.
RecvNoneApproves(h) ==
    /\ ~panicked
    /\ pc[h] = "recv"
    /\ rx[h] = << >>
    /\ ~SenderAlive(h)
    /\ ret' = [ret EXCEPT ![h] = Some(Success(<< >>))]
    /\ pc' = [pc EXCEPT ![h] = "returned"]
    /\ handled' = "none"
    /\ cmds' = << >>
    /\ UNCHANGED << calls, events, access_args, tasks, rx, sent, surfaces, closed,
                    unsent, panicked, lastChoice, leftBy >>

(***************************************************************************)
(* access_dialog, rx.recv().await yields None: the channel is empty and    *)
(* every sender of it has been dropped.  PortalResponse::Cancelled is      *)
(* returned.                                                               *)
(***************************************************************************)
RecvNone(h) ==
    /\ ~panicked
    /\ pc[h] = "recv"
    /\ rx[h] = << >>
    /\ ~SenderAlive(h)
    /\ ret' = [ret EXCEPT ![h] = Some(Cancelled)]
    /\ pc' = [pc EXCEPT ![h] = "returned"]
    /\ handled' = "none"
    /\ cmds' = << >>
    /\ UNCHANGED << calls, events, access_args, tasks, rx, sent, surfaces, closed,
                    unsent, panicked, lastChoice, leftBy >>

(***************************************************************************)
(* The application loop ends while the D-Bus service still runs: the       *)
(* subscription receiver and the portal state are dropped, and with them   *)
(* the senders held by the queued events and by the slot.  events and      *)
(* access_args keep the values they had when the loop ended.               *)
(***************************************************************************)
Teardown ==
    /\ ~panicked
    /\ ~closed
    /\ closed' = TRUE
    /\ handled' = "none"
    /\ cmds' = << >>
    /\ UNCHANGED << calls, pc, ret, events, access_args, tasks, rx, sent, surfaces,
                    unsent, panicked, lastChoice, leftBy >>

Next ==
    \/ \E c \in ChoiceInputs : AccessDialog(c)
    \/ UpdateArgs
    \/ Allow
    \/ Cancel
    \/ \E i, j \in 0 .. MaxIdx : Choice(i, j)
    \/ \E h \in Handles : RunSend(h)
    \/ \E h \in Handles : Recv(h)
    \/ \E h \in Handles : RecvNone(h)
    \/ \E h \in Handles : CallerGone(h)
    \/ Teardown

Spec == Init /\ [][Next]_vars

(***************************************************************************)
(* The scheduling the runtime provides: tokio polls every spawned task,    *)
(* the application loop takes every queued event, and an access_dialog     *)
(* future waiting on a filled channel is woken.  Nothing makes the user    *)
(* press a button, so Allow, Cancel and Choice get no fairness.            *)
(***************************************************************************)
Fairness ==
    /\ \A h \in Handles : WF_vars(RunSend(h))
    /\ WF_vars(UpdateArgs)
    /\ \A h \in Handles : WF_vars(Recv(h))

FairSpec == Spec /\ Fairness

(***************************************************************************)
(* Vocabulary of the properties.                                           *)
(***************************************************************************)
\* The arbiter's two states.
Idle == access_args = None
Pending == IsSome(access_args)

\* update_args has taken h's event from the subscription channel.
Installed(h) ==
    /\ h <= calls
    /\ h \notin unsent
    /\ \A k \in 1 .. Len(events) : events[k].handle # h

\* The request installed last (0 when none was).
LastInstalled == calls - Len(events) - Cardinality(unsent)

Current(h) == Pending /\ Unwrap(access_args).handle = h

\* h was installed and is no longer in the slot.
Left(h) == Installed(h) /\ ~Current(h)

\* The sends spawned for h's sink that have not run yet.
InFlight(h) == 1 .. Len(tasks[h])

\* The outcome values handed to h's sink: by completed sends and by sends in flight.
Outcomes(h) ==
    {sent[h][k].msg : k \in 1 .. Len(sent[h])} \cup {tasks[h][k] : k \in InFlight(h)}

\* The number of resolutions of h's sink, completed or in flight.
Resolutions(h) == Len(sent[h]) + Len(tasks[h])

\* The outcome values that went into h's channel.
Delivered(h) == {k \in 1 .. Len(sent[h]) : sent[h][k].ok}

(***************************************************************************)
(* C1: the reply sink of every request that has left the slot (by Allow,   *)
(* by Cancel, or superseded in update_args) is resolved exactly once: one  *)
(* send was spawned for it and no other, so its channel never gets two     *)
(* outcome values; a request still queued or current has none; and what    *)
(* the returned call of a request that left the slot got is the value of   *)
(* that one send.                                                          *)
(***************************************************************************)
C1_ResolvedExactlyOnce ==
    \A h \in Handles :
        /\ Left(h) => Resolutions(h) = 1
        /\ ~Left(h) => Resolutions(h) = 0
        /\ Left(h) <=> leftBy[h] # "none"
        /\ Cardinality(Delivered(h)) <= 1
        /\ Len(rx[h]) <= Cardinality(Delivered(h))
        /\ (Left(h) /\ pc[h] = "returned") =>
              /\ Len(sent[h]) = 1
              /\ sent[h][1].ok
              /\ ret[h] = Some(sent[h][1].msg)

\* A request was approved, another superseded, and both sends have completed.
C1_Witness ==
    \E h, n \in Handles :
        /\ leftBy[h] = "update_args"
        /\ leftBy[n] = "Allow"
        /\ Len(sent[h]) = 1
        /\ Len(sent[n]) = 1
        /\ pc[n] = "returned"

(***************************************************************************)
(* C2 as stated: whenever a request has been superseded, its Cancelled has *)
(* already been delivered to its sink (the send has completed) by the time *)
(* the next request is current.                                            *)
(***************************************************************************)
C2_DeliveredBeforeInstall ==
    \A h \in Handles :
        leftBy[h] = "update_args" =>
            /\ Len(sent[h]) = 1
            /\ sent[h][1].msg = Cancelled

(***************************************************************************)
(* C2 amended: update_args spawns the send of exactly one Cancelled for    *)
(* the request it supersedes, in the same step that installs the next      *)
(* request; that send is in flight or completed in every later state, it   *)
(* is the only resolution of the superseded request, and a superseded      *)
(* call that returns returns Cancelled.  Every installed request but the   *)
(* last has left the slot.                                                 *)
(***************************************************************************)
C2_CancelledSpawnedAtInstall ==
    \A h \in Handles :
        /\ (Installed(h) /\ h < LastInstalled) => (Left(h) /\ Resolutions(h) = 1)
        /\ leftBy[h] = "update_args" =>
              /\ Resolutions(h) = 1
              /\ Outcomes(h) = {Cancelled}
              /\ h < LastInstalled
              /\ pc[h] = "returned" => ret[h] = Some(Cancelled)

\* The next request is current while the superseded one's send is in flight.
C2_Witness ==
    \E h \in Handles :
        /\ leftBy[h] = "update_args"
        /\ InFlight(h) # {}
        /\ sent[h] = << >>
        /\ Current(h + 1)

(***************************************************************************)
(* C3: at most one request is current.  The requests the arbiter has       *)
(* received and not resolved are at most one, namely the one in the slot,  *)
(* and right after update_args handled request r the slot holds r.         *)
(***************************************************************************)
C3_AtMostOneCurrent ==
    LET unresolved == {h \in Handles : Installed(h) /\ Resolutions(h) = 0}
    IN  /\ Cardinality(unresolved) <= 1
        /\ unresolved = {h \in Handles : Current(h)}
        /\ Idle \/ Pending
        /\ handled = "update_args" => Current(LastInstalled)

\* A second request was installed over a pending one.
C3_Witness ==
    /\ handled = "update_args"
    /\ Current(2)
    /\ leftBy[1] = "update_args"

\* Group g of groups has an id no other group of the request has.
UniqueId(groups, g) ==
    \A g2 \in 1 .. Len(groups) : g2 # g => groups[g2][1] # groups[g][1]

\* What the claim expects of group g in the approved mapping: its initial
\* selection when it has one and no in-range select touched it, the option of
\* its last in-range select when one did.
ExpectedOfGroup(groups, last, choices, g) ==
    /\ (last[g] = 0 /\ groups[g][4] # "") => << groups[g][1], groups[g][4] >> \in choices
    /\ last[g] # 0 => << groups[g][1], groups[g][3][last[g]][1] >> \in choices

(***************************************************************************)
(* C4 as stated: the mapping Allow sends holds, for every group, the       *)
(* group's non-empty initial selection when no in-range select touched     *)
(* the group, and the option of the last in-range select on it otherwise.  *)
(***************************************************************************)
C4_EveryGroup ==
    [][ (Pending /\ handled' = "Allow") =>
          LET groups == Flatten(Unwrap(access_args).options)
              spawned == tasks'[Unwrap(access_args).tx]
              msg == spawned[Len(spawned)]
          IN  /\ spawned # << >>
              /\ msg.kind = "Success"
              /\ \A g \in 1 .. Len(groups) :
                    ExpectedOfGroup(groups, lastChoice, msg.choices, g) ]_vars

(***************************************************************************)
(* C4 amended: the same, for every group whose id no other group of the    *)
(* request shares (groups sharing an id share one entry of the mapping).   *)
(***************************************************************************)
C4_GroupsWithUniqueId ==
    [][ (Pending /\ handled' = "Allow") =>
          LET groups == Flatten(Unwrap(access_args).options)
              spawned == tasks'[Unwrap(access_args).tx]
              msg == spawned[Len(spawned)]
          IN  /\ spawned # << >>
              /\ msg.kind = "Success"
              /\ \A g \in 1 .. Len(groups) :
                    UniqueId(groups, g) =>
                        ExpectedOfGroup(groups, lastChoice, msg.choices, g) ]_vars

\* One group fmt with initial a, select(0, 1), then Allow: Success({fmt: b}).
C4_Witness ==
    /\ handled = "Allow"
    /\ ~panicked
    /\ lastChoice = << 2 >>
    /\ tasks[LastInstalled] = << [kind |-> "Success", choices |-> {<< "fmt", "b" >>}] >>

\* g is no group of the request, or o is no option of group g (0-based).
OutOfRange(choices, g, o) ==
    LET groups == Flatten(choices)
    IN  \/ g >= Len(groups)
        \/ g < Len(groups) /\ o >= Len(groups[g + 1][3])

(***************************************************************************)
(* C5: Msg::Choice(g, o) handled while a request is current, with g or o   *)
(* out of range, changes nothing of the request (its selection state       *)
(* included), resolves no sink, does not panic and leaves it current.      *)
(***************************************************************************)
C5_OutOfRangeSelectIsNoOp ==
    [][ (Pending /\ handled' = "Choice") =>
        \A g, o \in 0 .. MaxIdx :
          (OutOfRange(Unwrap(access_args).options, g, o) /\ Choice(g, o)) =>
          ( /\ access_args' = access_args
            /\ tasks' = tasks
            /\ sent' = sent
            /\ rx' = rx
            /\ ret' = ret
            /\ ~panicked' ) ]_vars

\* A Choice was handled for a request with options, and touched no group.
C5_Witness ==
    /\ handled = "Choice"
    /\ ~panicked
    /\ Pending
    /\ Len(lastChoice) = 2
    /\ \A g \in 1 .. Len(lastChoice) : lastChoice[g] = 0
    /\ Unwrap(access_args).active_choices = ActiveChoices(Unwrap(access_args).options)
    /\ Resolutions(Unwrap(access_args).handle) = 0

(***************************************************************************)
(* C6: Allow or Cancel handled while no request is current panics (the     *)
(* unwrap of an empty slot); no send is spawned, no sink resolved, no      *)
(* request installed.                                                      *)
(***************************************************************************)
C6_ApproveCancelWhenIdlePanics ==
    [][ (Idle /\ handled' \in {"Allow", "Cancel"}) =>
          ( /\ panicked'
            /\ access_args' = None
            /\ tasks' = tasks
            /\ sent' = sent
            /\ rx' = rx
            /\ ret' = ret ) ]_vars

\* Cancel was handled in Idle after a request had been approved.
C6_Witness ==
    /\ panicked
    /\ handled = "Cancel"
    /\ Idle
    /\ \E h \in Handles : leftBy[h] = "Allow"

(***************************************************************************)
(* C7: the one resolution of a request that Cancel took out of the slot is *)
(* Cancelled, a value with no selection data, whatever was selected; a     *)
(* cancelled call that returns returns Cancelled.                          *)
(***************************************************************************)
C7_CancelYieldsCancelled ==
    \A h \in Handles :
        leftBy[h] = "Cancel" =>
            /\ Resolutions(h) = 1
            /\ Outcomes(h) = {Cancelled}
            /\ \A m \in Outcomes(h) : DOMAIN m = {"kind"}
            /\ pc[h] = "returned" => ret[h] = Some(Cancelled)

\* A request with a changed selection was cancelled and its call returned.
C7_Witness ==
    \E h \in Handles :
        /\ leftBy[h] = "Cancel"
        /\ h = LastInstalled
        /\ \E g \in 1 .. Len(lastChoice) : lastChoice[g] # 0
        /\ ret[h] = Some(Cancelled)

(***************************************************************************)
(* C8: the arbiter is the two-state machine Idle/Pending: update_args      *)
(* leads to Pending from either state; Allow and Cancel lead from Pending  *)
(* to Idle, the slot cleared; Choice keeps the state; and the state        *)
(* changes in no other step.                                               *)
(***************************************************************************)
C8_TwoStateMachine ==
    [][ /\ handled' = "update_args" => Pending'
        /\ (Pending /\ handled' \in {"Allow", "Cancel"}) => (Idle' /\ access_args' = None)
        /\ handled' = "Choice" => (Pending' <=> Pending)
        /\ (Idle /\ Pending') => handled' = "update_args"
        /\ (Pending /\ Idle') => handled' \in {"Allow", "Cancel"}
        /\ (Pending /\ Pending' /\ Unwrap(access_args').handle # Unwrap(access_args).handle)
              => handled' = "update_args" ]_vars

\* Idle, Pending, Pending again by a superseding request, and back to Idle.
C8_Witness ==
    /\ Idle
    /\ ~panicked
    /\ handled = "Cancel"
    /\ \E h \in Handles : leftBy[h] = "update_args"

(***************************************************************************)
(* C9 as stated: every request the arbiter received is eventually resolved *)
(* (unless a panic has ended the process).                                 *)
(***************************************************************************)
C9_EverySubmitResolved ==
    \A h \in Handles : Installed(h) ~> (Len(sent[h]) = 1 \/ panicked)

(***************************************************************************)
(* C9 amended: every request that has left the slot (by Allow, by Cancel   *)
(* or superseded) is eventually resolved, by exactly one send, unless a    *)
(* panic ends the process first; a request that stays current need never   *)
(* be resolved.  Having left the slot and having a completed send are      *)
(* both permanent (the action conjunct), so "again and again every request *)
(* that has left has its completed send" says that each of them gets it.   *)
(***************************************************************************)
C9_EveryLeftRequestResolved ==
    /\ []<>(\A h \in Handles : Left(h) => (Len(sent[h]) = 1 \/ panicked))
    /\ [][\A h \in Handles :
             /\ Left(h) => Left(h)'
             /\ Len(sent[h]) = 1 => Len(sent[h])' = 1]_vars
    /\ [](\A h \in Handles : Resolutions(h) <= 1)

\* Both requests have left the slot and both sends have completed.
C9_Witness ==
    \A h \in Handles : Left(h) /\ Len(sent[h]) = 1 /\ InFlight(h) = {}

(***************************************************************************)
(* C10: a sink gets its resolution only in a step in which Allow, Cancel   *)
(* or update_args takes its request out of the slot; a Choice and every    *)
(* step of the clients, the channels and the tasks leave the current       *)
(* request current and unresolved.                                         *)
(***************************************************************************)
C10_ResolvedOnlyByApproveCancelSupersede ==
    [][ \A h \in Handles :
          /\ (Resolutions(h) = 0 /\ Resolutions(h)' # 0) =>
                (Current(h) /\ handled' \in {"Allow", "Cancel", "update_args"})
          /\ (Current(h) /\ ~Current(h)') =>
                handled' \in {"Allow", "Cancel", "update_args"}
          /\ (Current(h) /\ handled' \in {"Choice", "none"}) =>
                (Current(h)' /\ Resolutions(h)' = 0) ]_vars

\* A request is still current and unresolved after selects and other steps.
C10_Witness ==
    \E h \in Handles :
        /\ Current(h)
        /\ Resolutions(h) = 0
        /\ handled = "Choice"
        /\ \A g \in 1 .. Len(lastChoice) : lastChoice[g] # 0
        /\ Len(lastChoice) = 2
        /\ \E n \in Handles : n # h /\ pc[n] = "returned"

\* The ids of the choice groups of a request.
GroupIds(args) ==
    LET groups == Flatten(args.options)
    IN  {groups[g][1] : g \in 1 .. Len(groups)}

(***************************************************************************)
(* C11: the keys of a request's selection state (active_choices) are ids   *)
(* of groups of that request's choice set: as seeded by access_dialog      *)
(* (the queued events) and after any number of Choice messages (the        *)
(* slot).                                                                  *)
(***************************************************************************)
C11_SelectionKeysAreGroupIds ==
    /\ \A k \in 1 .. Len(events) :
          DOMAIN events[k].active_choices \subseteq GroupIds(events[k])
    /\ Pending =>
          DOMAIN Unwrap(access_args).active_choices
              \subseteq GroupIds(Unwrap(access_args))

\* An in-range select added the key enc to the seeded key odd.
C11_Witness ==
    /\ Pending
    /\ handled = "Choice"
    /\ lastChoice = << 1, 0 >>
    /\ DOMAIN ActiveChoices(Unwrap(access_args).options) = {"odd"}
    /\ DOMAIN Unwrap(access_args).active_choices = {"enc", "odd"}

(***************************************************************************)
(* C12 as stated: a call that has returned belongs to a request that the   *)
(* arbiter received, that is no longer current, and whose reply sink the   *)
(* arbiter has resolved (the send has completed).                          *)
(***************************************************************************)
C12_ReturnsOnlyAfterArbiterResolved ==
    \A h \in Handles :
        pc[h] = "returned" =>
            /\ Installed(h)
            /\ ~Current(h)
            /\ Len(sent[h]) = 1

(***************************************************************************)
(* C12 amended: a call returns the value the arbiter resolved its sink     *)
(* with, after its request has left the slot and the send has completed;   *)
(* the only other return is that of a call none of whose senders is left   *)
(* (the subscription refused its event, or the application loop ended      *)
(* while its request was queued or current), and that call's sink was      *)
(* never resolved.  While the application loop runs no call returns        *)
(* before the arbiter has resolved its sink.                               *)
(***************************************************************************)
C12_ReturnsAfterResolvedOrSendersDropped ==
    \A h \in Handles :
        pc[h] = "returned" =>
            \/ /\ Left(h)
               /\ Len(sent[h]) = 1
               /\ sent[h][1].ok
               /\ ret[h] = Some(sent[h][1].msg)
            \/ /\ closed
               /\ ~SenderAlive(h)
               /\ Resolutions(h) = 0
               /\ leftBy[h] = "none"

\* One call returned what the arbiter sent; another returned though its
\* request was still in the slot when the application loop ended.
C12_Witness ==
    \E h, n \in Handles :
        /\ pc[h] = "returned"
        /\ leftBy[h] = "Allow"
        /\ pc[n] = "returned"
        /\ Current(n)
        /\ closed

(***************************************************************************)
(* C13 as stated: a call whose reply sink was dropped unresolved returns   *)
(* an error, a value that is neither Success nor Cancelled.                *)
(***************************************************************************)
C13_UnresolvedDropReturnsError ==
    \A h \in Handles :
        (pc[h] = "returned" /\ Resolutions(h) = 0) =>
            Unwrap(ret[h]).kind \notin {"Success", "Cancelled"}

(***************************************************************************)
(* C13 amended: a call whose reply sink was dropped unresolved (its event  *)
(* never reached the arbiter, or the application loop ended while its      *)
(* request was queued or current) returns Cancelled, the value an explicit *)
(* Cancel yields; and a call returns without a resolution only in that     *)
(* case.                                                                   *)
(***************************************************************************)
C13_UnresolvedDropReturnsCancelled ==
    \A h \in Handles :
        (pc[h] = "returned" /\ Resolutions(h) = 0) =>
            /\ ret[h] = Some(Cancelled)
            /\ closed
            /\ h \in unsent \/ ~Installed(h) \/ Current(h)

\* Three ways of losing the sink: the event was refused, the event was still
\* queued, the request was current when the application loop ended.
C13_Witness ==
    \E h, n \in Handles :
        /\ h # n
        /\ pc[h] = "returned" /\ Resolutions(h) = 0
        /\ pc[n] = "returned" /\ Resolutions(n) = 0
        /\ n \in unsent
        /\ Current(h) \/ ~Installed(h)

\* The send spawned for h has run and failed: h's receiver was gone.
SendFailed(h) == \E k \in 1 .. Len(sent[h]) : ~sent[h][k].ok

(***************************************************************************)
(* C14: a reply whose receiver is gone is not fatal.  The handler that     *)
(* resolves a request whose caller has gone makes the transition it makes  *)
(* for any request (Allow and Cancel clear the slot, update_args installs  *)
(* the next event, each spawns the send and none panics); and the step in  *)
(* which the send fails changes nothing but the task's own state: slot,    *)
(* queued events, surfaces and the other calls are as before, and the      *)
(* application loop goes on.                                               *)
(***************************************************************************)
C14_FailedSendIsNotFatal ==
    [][ \A h \in Handles :
          /\ (Current(h) /\ ~ReceiverOpen(h) /\ handled' \in {"Allow", "Cancel"}) =>
                ( /\ access_args' = None
                  /\ Len(tasks'[h]) = 1
                  /\ ~panicked' )
          /\ (Current(h) /\ ~ReceiverOpen(h) /\ handled' = "update_args") =>
                ( /\ access_args' = Some(Head(events))
                  /\ events' = Tail(events)
                  /\ tasks'[h] = << Cancelled >>
                  /\ ~panicked' )
          /\ (~SendFailed(h) /\ SendFailed(h)') =>
                ( /\ access_args' = access_args
                  /\ events' = events
                  /\ surfaces' = surfaces
                  /\ closed' = closed
                  /\ panicked' = panicked
                  /\ rx' = rx
                  /\ ret' = ret
                  /\ \A n \in Handles \ {h} : tasks'[n] = tasks[n] /\ sent'[n] = sent[n] ) ]_vars

\* The reply to a caller that had gone failed; a later request was then
\* installed, changed by a select, approved, and its call returned.
C14_Witness ==
    \E h, n \in Handles :
        /\ h < n
        /\ SendFailed(h)
        /\ leftBy[n] = "Allow"
        /\ \E g \in 1 .. Len(lastChoice) : lastChoice[g] # 0
        /\ pc[n] = "returned"
        /\ Unwrap(ret[n]).kind = "Success"
        /\ ~panicked

(***************************************************************************)
(* C15: the surface commands go with the transitions.  update_args from    *)
(* Idle returns one get_surface; update_args over a current request        *)
(* returns destroy_surface followed by get_surface; Allow and Cancel of a  *)
(* current request return one destroy_surface; Choice returns none; no     *)
(* other step issues a command.  So the get_surface commands issued minus  *)
(* the destroy_surface commands issued is 1 when Pending and 0 when Idle.  *)
(***************************************************************************)
C15_SurfaceCommandsFollowTransitions ==
    /\ [](surfaces.get - surfaces.destroy = IF Pending THEN 1 ELSE 0)
    /\ [][ /\ (Idle /\ handled' = "update_args") => cmds' = << "get_surface" >>
           /\ (Pending /\ handled' = "update_args") =>
                 cmds' = << "destroy_surface", "get_surface" >>
           /\ (Pending /\ handled' \in {"Allow", "Cancel"}) =>
                 cmds' = << "destroy_surface" >>
           /\ handled' \in {"Choice", "none"} => cmds' = << >>
           /\ surfaces'.get = surfaces.get
                 + Cardinality({k \in 1 .. Len(cmds') : cmds'[k] = "get_surface"})
           /\ surfaces'.destroy = surfaces.destroy
                 + Cardinality({k \in 1 .. Len(cmds') : cmds'[k] = "destroy_surface"}) ]_vars

\* A second request has just superseded the first.
C15_Witness ==
    /\ handled = "update_args"
    /\ cmds = << "destroy_surface", "get_surface" >>
    /\ surfaces = [get |-> 2, destroy |-> 1]
    /\ Pending

(***************************************************************************)
(* C16: Msg::Choice handled while no request is current is a no-op: it     *)
(* does not panic, resolves no sink, and leaves the slot empty.            *)
(***************************************************************************)
C16_SelectWhenIdleIsNoOp ==
    [][ (Idle /\ handled' = "Choice") =>
          ( /\ ~panicked'
            /\ Idle'
            /\ tasks' = tasks
            /\ sent' = sent
            /\ rx' = rx
            /\ ret' = ret ) ]_vars

\* The kind of outcome produced for a request, by the handler that took it
\* out of the slot.
KindProducedFor(h) ==
    IF leftBy[h] = "Allow" THEN "Success" ELSE "Cancelled"

(***************************************************************************)
(* C17: each outcome value reaches only the sink of the request it was     *)
(* produced for, whatever the order in which the spawned sends run.  The   *)
(* values in a call's channel and the value it returned are values sent    *)
(* on its own tx, of the kind its own handler produced (a superseded or    *)
(* cancelled call never holds a Success, an approved call never a          *)
(* Cancelled); a call whose request has not left the slot has an empty     *)
(* channel; and a send that runs puts the value spawned for h into h's     *)
(* channel and touches the channel and the result of no other call.        *)
(***************************************************************************)
C17_OutcomeReachesOwnSinkOnly ==
    /\ [](\A h \in Handles :
            /\ leftBy[h] = "none" => (rx[h] = << >> /\ Resolutions(h) = 0)
            /\ \A m \in Outcomes(h) : m.kind = KindProducedFor(h)
            /\ \A k \in 1 .. Len(rx[h]) :
                  \E d \in Delivered(h) : sent[h][d].msg = rx[h][k]
            /\ (pc[h] = "returned" /\ Resolutions(h) # 0) =>
                  \E d \in Delivered(h) : ret[h] = Some(sent[h][d].msg))
    /\ [][ \A h \in Handles :
             Len(sent'[h]) > Len(sent[h]) =>
               ( /\ sent'[h] = Append(sent[h], [msg |-> Head(tasks[h]),
                                                ok |-> ReceiverOpen(h)])
                 /\ rx'[h] = IF ReceiverOpen(h) THEN Append(rx[h], Head(tasks[h]))
                                                ELSE rx[h]
                 /\ \A n \in Handles \ {h} :
                       rx'[n] = rx[n] /\ ret'[n] = ret[n] /\ sent'[n] = sent[n] ) ]_vars

\* The later request's Success was delivered and returned while the
\* Cancelled of the request it superseded is still in flight.
C17_Witness ==
    \E h, n \in Handles :
        /\ h < n
        /\ leftBy[h] = "update_args"
        /\ tasks[h] = << Cancelled >>
        /\ pc[h] = "recv"
        /\ leftBy[n] = "Allow"
        /\ pc[n] = "returned"
        /\ Unwrap(ret[n]).kind = "Success"

(***************************************************************************)
(* C18: Msg::Choice(g, o) with g and o in range, handled while a request   *)
(* is current, sets the entry of active_choices keyed by the id of group g *)
(* to the id of option o of that group and changes nothing else: every     *)
(* other entry, the options, handle and tx of the request stay, the        *)
(* request stays current, and no sink is resolved.                         *)
(***************************************************************************)
C18_InRangeSelectChangesOneEntry ==
    [][ (Pending /\ handled' = "Choice") =>
        \A g, o \in 0 .. MaxIdx :
          (~OutOfRange(Unwrap(access_args).options, g, o) /\ Choice(g, o)) =>
            LET old == Unwrap(access_args)
                groups == Flatten(old.options)
                id == groups[g + 1][1]
                option == groups[g + 1][3][o + 1][1]
            IN  /\ Pending'
                /\ DOMAIN Unwrap(access_args').active_choices
                      = DOMAIN old.active_choices \cup {id}
                /\ Unwrap(access_args').active_choices[id] = option
                /\ \A k \in DOMAIN old.active_choices \ {id} :
                      Unwrap(access_args').active_choices[k] = old.active_choices[k]
                /\ Unwrap(access_args').options = old.options
                /\ Unwrap(access_args').choice_labels = old.choice_labels
                /\ Unwrap(access_args').handle = old.handle
                /\ Unwrap(access_args').tx = old.tx
                /\ events' = events
                /\ tasks' = tasks
                /\ sent' = sent
                /\ rx' = rx
                /\ ret' = ret
                /\ ~panicked' ]_vars

\* select(0, 1) on the request with groups enc and odd: enc is set to l,
\* the seeded entry of odd stays.
C18_Witness ==
    /\ Pending
    /\ handled = "Choice"
    /\ lastChoice = << 2, 0 >>
    /\ Unwrap(access_args).active_choices = [k \in {"enc", "odd"} |->
                                                IF k = "enc" THEN "l" ELSE "z"]
    /\ Resolutions(Unwrap(access_args).handle) = 0

\* Group g has a non-empty initial selection or got an in-range select.
Seeded(groups, last, g) == groups[g][4] # "" \/ last[g] # 0

OptionIds(group) == {group[3][o][1] : o \in 1 .. Len(group[3])}

\* Every value of the request's active_choices is, for a group with the id
\* it is keyed by, the group's initial selection or the id of one of its
\* options.
ValuesFromGroups(args) ==
    LET groups == Flatten(args.options)
    IN  \A k \in DOMAIN args.active_choices :
            \E g \in 1 .. Len(groups) :
                /\ groups[g][1] = k
                /\ \/ args.active_choices[k] = groups[g][4]
                   \/ args.active_choices[k] \in OptionIds(groups[g])

====
